---- MODULE Spec2Model ----
(***************************************************************************)
(* The BPF architecture module of gdbstub (register file, register ids,   *)
(* breakpoint kinds) and the qRegisterInfo packet parser.                  *)
(*                                                                         *)
(* Representation.  TLC's integers are 32 bits wide, so a u32/u64 value    *)
(* is kept as its base-256 limbs: a function k |-> limb of weight 256^k,   *)
(* k \in 0..w-1.  A byte buffer is a sequence (index 1..n) of 0..255.      *)
(***************************************************************************)
EXTENDS Integers, Sequences, FiniteSets, TLC

VARIABLES
    arch,   \* "Bpf" (U = u32) or "Bpf64" (U = u64)
    regs,   \* the BpfRegs<U> value the stub holds
    wire,   \* the byte buffer in flight: last gdb_serialize output / client data
    op,     \* last register-file operation
    res,    \* its outcome: "none", "Ok", "Err", "panic"
    pre,    \* register file before the last register-file operation
    sent,   \* [some, regs]: the register file whose serialization is on the wire
    rcvd,   \* [some, buf]: the buffer the current register file was read from
    n,      \* number of register-file operations done
    call,   \* last call of a pure function: [fn, arg]
    ret     \* its return value

vars == <<arch, regs, wire, op, res, pre, sent, rcvd, n, call, ret>>

(***************************************************************************)
(* Bounds of the model                                                     *)
(***************************************************************************)
MaxOps == 3        \* register-file operations per behaviour
MaxExtra == 1      \* bytes a client buffer may exceed the register file by
MaxBodyLen == 3    \* length of a qRegisterInfo body
MaxRawId == 63     \* raw register ids 0..MaxRawId
MaxKind == 40      \* breakpoint kinds 0..MaxKind

(***************************************************************************)
(* Program constants                                                       *)
(***************************************************************************)
NumGprs == 10      \* r: [u64; 10]
GprSize == 8       \* size of a u64 general purpose register
GprBytes == 80     \* 0x50, the end of the general purpose bank in the buffer
Radix == 16        \* u8::from_str_radix(.., 16)
U8Max == 255       \* reg_num: u8

Archs == {"Bpf", "Bpf64"}

\* core::mem::size_of::<U>() with U = Arch::Usize
ptrsize(a) == IF a = "Bpf" THEN 4 ELSE 8

(***************************************************************************)
(* Integer <-> byte codecs                                                 *)
(***************************************************************************)
\* u64::to_le_bytes: output byte i (0-based) is the limb of weight 256^i
u64_to_le_bytes(v) == [i \in 1..GprSize |-> v[i - 1]]

\* faulty variant: the general purpose bank read little-endian
u64_from_le_bytes(x) == [k \in 0..(GprSize - 1) |-> x[k + 1]]

\* u64::from_be_bytes: the first byte is the most significant limb
u64_from_be_bytes(x) == [k \in 0..(GprSize - 1) |-> x[GprSize - k]]

\* LeBytes::to_le_bytes for U: Some(len) and the len little-endian bytes
LeBytes_to_le_bytes(a, v) == [i \in 1..ptrsize(a) |-> v[i - 1]]

\* LeBytes::from_le_bytes for U: Some(value) read little-endian
LeBytes_from_le_bytes(a, c) ==
    [some |-> TRUE,
     val  |-> [k \in 0..(ptrsize(a) - 1) |-> IF k + 1 <= Len(c) THEN c[k + 1] ELSE 0]]

(***************************************************************************)
(* BpfRegs<U>                                                              *)
(***************************************************************************)
ZeroU64 == [k \in 0..(GprSize - 1) |-> 0]
ZeroPtr(a) == [k \in 0..(ptrsize(a) - 1) |-> 0]

\* #[derive(Default)]
DefaultRegs(a) == [r |-> [i \in 0..(NumGprs - 1) |-> ZeroU64], sp |-> ZeroPtr(a), pc |-> ZeroPtr(a)]

RECURSIVE WriteGprs(_, _)
\* for reg in self.r.iter() { for b in reg.to_le_bytes() { write_byte(Some(b)) } }
WriteGprs(r, i) ==
    IF i >= NumGprs THEN <<>> ELSE u64_to_le_bytes(r[i]) \o WriteGprs(r, i + 1)

\* faulty variant: the program counter written before the stack pointer
gdb_serialize_pc_first(a, self) ==
    WriteGprs(self.r, 0) \o LeBytes_to_le_bytes(a, self.pc) \o LeBytes_to_le_bytes(a, self.sp)

\* the bytes write_byte receives, in order
gdb_serialize(a, self) ==
    WriteGprs(self.r, 0) \o LeBytes_to_le_bytes(a, self.sp) \o LeBytes_to_le_bytes(a, self.pc)

\* bytes[from..to] (0-based, half open): panics when out of range
Slice(bytes, from, to) ==
    IF from <= to /\ to <= Len(bytes)
    THEN [ok |-> TRUE, s |-> SubSeq(bytes, from + 1, to)]
    ELSE [ok |-> FALSE, s |-> <<>>]

\* slice.chunks_exact(size): the complete chunks, a remainder is dropped
chunks_exact(s, size) ==
    [j \in 1..(Len(s) \div size) |-> SubSeq(s, (j - 1) * size + 1, j * size)]

Min(x, y) == IF x < y THEN x ELSE y

\* faulty variant: the length check counts one pointer-sized register
needed_len_one_ptr(a) == (GprSize * NumGprs) + ptrsize(a)

\* (8 * 10) + (ptrsize * 2): the data of all 12 registers
needed_len(a) == (GprSize * NumGprs) + (ptrsize(a) * 2)

gdb_deserialize(a, self, bytes) ==
    IF Len(bytes) < needed_len(a)
    THEN [res |-> "Err", regs |-> self]
    ELSE
    LET gslice == Slice(bytes, 0, GprBytes) IN
    IF ~gslice.ok THEN [res |-> "panic", regs |-> self] ELSE
    LET gchunks == chunks_exact(gslice.s, GprSize)
        ngot    == Min(NumGprs, Len(gchunks))
        \* for reg in self.r.iter_mut() { *reg = regs.next().ok_or(())?; }
        r1      == [i \in 0..(NumGprs - 1) |->
                      IF i < ngot THEN u64_from_be_bytes(gchunks[i + 1]) ELSE self.r[i]]
        self1   == [self EXCEPT !.r = r1]
    IN
    IF ngot < NumGprs THEN [res |-> "Err", regs |-> self1] ELSE
    LET end_regs == GprBytes + (ptrsize(a) * 2)
        pslice   == Slice(bytes, GprBytes, end_regs)
    IN
    IF ~pslice.ok THEN [res |-> "panic", regs |-> self1] ELSE
    LET pchunks == chunks_exact(pslice.s, ptrsize(a)) IN
    IF Len(pchunks) < 1 THEN [res |-> "Err", regs |-> self1] ELSE
    LET spv == LeBytes_from_le_bytes(a, pchunks[1]) IN
    IF ~spv.some THEN [res |-> "panic", regs |-> self1] ELSE
    LET self2 == [self1 EXCEPT !.sp = spv.val] IN
    IF Len(pchunks) < 2 THEN [res |-> "Err", regs |-> self2] ELSE
    LET pcv == LeBytes_from_le_bytes(a, pchunks[2]) IN
    IF ~pcv.some THEN [res |-> "panic", regs |-> self2] ELSE
    [res |-> "Ok", regs |-> [self2 EXCEPT !.pc = pcv.val]]

(***************************************************************************)
(* Inputs: register values, register files and client buffers              *)
(***************************************************************************)
RECURSIVE Limb(_, _)
\* limb of weight 256^k of a small number x
Limb(x, k) == IF k = 0 THEN x % 256 ELSE Limb(x \div 256, k - 1)

\* the w-byte unsigned value of a small number x
Num(x, w) == [k \in 0..(w - 1) |-> Limb(x, k)]

\* the value whose limbs, most significant first, are the bytes of t
FromDigits(t) == [k \in 0..(Len(t) - 1) |-> t[Len(t) - k]]

GprVals ==
    { ZeroU64,
      Num(4096, GprSize),                          \* 0x1000
      FromDigits(<<1, 2, 3, 4, 5, 6, 7, 8>>),      \* 0x0102030405060708
      FromDigits(<<1, 0, 0, 0, 0, 0, 0, 1>>) }     \* 0x0100000000000001

PtrVals(a) ==
    { Num(4096, ptrsize(a)),                       \* 0x1000
      Num(8192, ptrsize(a)),                       \* 0x2000
      IF a = "Bpf" THEN FromDigits(<<222, 173, 190, 239>>)
                   ELSE FromDigits(<<1, 2, 3, 4, 5, 6, 7, 8>>) }

\* register files: one general purpose register holds x, the others y
RegFiles(a) ==
    { [r |-> [i \in 0..(NumGprs - 1) |-> IF i = j THEN x ELSE y], sp |-> s, pc |-> p] :
        j \in 0..(NumGprs - 1), x \in GprVals, y \in GprVals,
        s \in PtrVals(a), p \in PtrVals(a) }

RegFileLen(a) == (GprSize * NumGprs) + (2 * ptrsize(a))

GprChunks ==
    { <<0, 0, 0, 0, 0, 0, 0, 0>>,
      <<1, 2, 3, 4, 5, 6, 7, 8>>,
      <<0, 16, 0, 0, 0, 0, 0, 0>>,
      <<255, 0, 0, 0, 0, 0, 0, 255>> }

PtrChunks(a) ==
    IF a = "Bpf" THEN { <<0, 16, 0, 0>>, <<1, 2, 3, 4>> }
                 ELSE { <<0, 16, 0, 0, 0, 0, 0, 0>>, <<1, 2, 3, 4, 5, 6, 7, 8>> }

RECURSIVE Repeat(_, _)
Repeat(c, k) == IF k = 0 THEN <<>> ELSE c \o Repeat(c, k - 1)

\* buffers of exactly the register-file length: chunk j holds x, the others y
ExactBuffers(a) ==
    { Repeat(y, j) \o x \o Repeat(y, NumGprs - 1 - j) \o s \o p :
        j \in 0..(NumGprs - 1), x \in GprChunks, y \in GprChunks,
        s \in PtrChunks(a), p \in PtrChunks(a) }

ShortLens(a) ==
    { 0, 1, GprBytes - 1, GprBytes, GprBytes + 1, GprBytes + ptrsize(a),
      RegFileLen(a) - 1 }

\* buffers shorter than the register file
ShortBuffers(a) ==
    { SubSeq(b, 1, l) :
        b \in { Repeat(y, NumGprs) \o s \o s : y \in GprChunks, s \in PtrChunks(a) },
        l \in ShortLens(a) }

\* buffers longer than the register file
LongBuffers(a) ==
    { b \o Repeat(<<170>>, e) :
        b \in { Repeat(y, NumGprs) \o s \o s : y \in GprChunks, s \in PtrChunks(a) },
        e \in 1..MaxExtra }

Buffers(a) == ExactBuffers(a) \cup ShortBuffers(a) \cup LongBuffers(a)

\* register files a client buffer is read into
Targets(a) ==
    { DefaultRegs(a),
      [r |-> [i \in 0..(NumGprs - 1) |-> FromDigits(<<9, 9, 9, 9, 9, 9, 9, i>>)],
       sp |-> Num(4096, ptrsize(a)), pc |-> Num(8192, ptrsize(a))] }

NoCall == [fn |-> "none", arg |-> <<>>]
NoRet  == [tag |-> "none"]

(***************************************************************************)
(* Register-file operations                                                *)
(***************************************************************************)
\* Either the target has filled a register file, or the client has sent a buffer
Init ==
    /\ arch \in Archs
    /\ \/ regs \in RegFiles(arch) /\ wire = <<>>
       \/ regs \in Targets(arch) /\ wire \in Buffers(arch)
    /\ op = "none"
    /\ res = "none"
    /\ pre = regs
    /\ sent = [some |-> FALSE, regs |-> DefaultRegs(arch)]
    /\ rcvd = [some |-> FALSE, buf |-> <<>>]
    /\ n = 0
    /\ call = NoCall
    /\ ret = NoRet

\* regs.gdb_serialize(|b| out.push(b))
GdbSerialize ==
    /\ n < MaxOps
    /\ res # "panic"
    /\ wire' = gdb_serialize(arch, regs)
    /\ sent' = [some |-> TRUE, regs |-> regs]
    /\ op' = "gdb_serialize"
    /\ res' = "Ok"
    /\ pre' = regs
    /\ n' = n + 1
    /\ UNCHANGED <<arch, regs, rcvd, call, ret>>

\* regs.gdb_deserialize(&wire)
GdbDeserialize ==
    /\ n < MaxOps
    /\ res # "panic"
    /\ LET d == gdb_deserialize(arch, regs, wire) IN
        /\ regs' = d.regs
        /\ res' = d.res
        /\ rcvd' = IF d.res = "Ok" THEN [some |-> TRUE, buf |-> wire]
                   ELSE IF d.regs = regs THEN rcvd
                   ELSE [some |-> FALSE, buf |-> <<>>]
    /\ op' = "gdb_deserialize"
    /\ pre' = regs
    /\ n' = n + 1
    /\ UNCHANGED <<arch, wire, sent, call, ret>>

\* regs = BpfRegs::default()
NewRegs ==
    /\ n < MaxOps
    /\ res # "panic"
    /\ regs' = DefaultRegs(arch)
    /\ rcvd' = [some |-> FALSE, buf |-> <<>>]
    /\ op' = "default"
    /\ res' = "Ok"
    /\ pre' = regs
    /\ n' = n + 1
    /\ UNCHANGED <<arch, wire, sent, call, ret>>

Next == GdbSerialize \/ GdbDeserialize \/ NewRegs

Spec == Init /\ [][Next]_vars

(***************************************************************************)
(* qRegisterInfo::from_packet                                              *)
(***************************************************************************)
None == [tag |-> "None"]
Panic == [tag |-> "panic"]

IsCont(c) == c >= 128 /\ c <= 191

RECURSIVE Utf8Valid(_, _)
\* core::str::from_utf8(b).is_ok(), scanning from index i
Utf8Valid(b, i) ==
    IF i > Len(b) THEN TRUE
    ELSE LET c == b[i]
             cont(k) == i + k <= Len(b) /\ IsCont(b[i + k])
         IN
         IF c < 128 THEN Utf8Valid(b, i + 1)
         ELSE IF c >= 194 /\ c <= 223 THEN cont(1) /\ Utf8Valid(b, i + 2)
         ELSE IF c = 224 THEN cont(1) /\ b[i + 1] >= 160 /\ cont(2) /\ Utf8Valid(b, i + 3)
         ELSE IF c = 237 THEN cont(1) /\ b[i + 1] <= 159 /\ cont(2) /\ Utf8Valid(b, i + 3)
         ELSE IF c >= 225 /\ c <= 239 THEN cont(1) /\ cont(2) /\ Utf8Valid(b, i + 3)
         ELSE IF c = 240 THEN cont(1) /\ b[i + 1] >= 144 /\ cont(2) /\ cont(3)
                              /\ Utf8Valid(b, i + 4)
         ELSE IF c = 244 THEN cont(1) /\ b[i + 1] <= 143 /\ cont(2) /\ cont(3)
                              /\ Utf8Valid(b, i + 4)
         ELSE IF c >= 241 /\ c <= 243 THEN cont(1) /\ cont(2) /\ cont(3)
                              /\ Utf8Valid(b, i + 4)
         ELSE FALSE

\* faulty variant: upper-case letters are not digits
to_digit_lower_only(c, radix) ==
    LET d == IF c >= 48 /\ c <= 57 THEN c - 48
             ELSE IF c >= 97 /\ c < 128 THEN c - 97 + 10
             ELSE radix
    IN IF d < radix THEN [some |-> TRUE, val |-> d] ELSE [some |-> FALSE, val |-> 0]

\* char::to_digit(radix): '0'..'9', then letters with the case bit set
to_digit(c, radix) ==
    LET lower == IF (c \div 32) % 2 = 0 THEN c + 32 ELSE c
        d     == IF c >= 48 /\ c <= 57 THEN c - 48
                 ELSE IF lower >= 97 /\ c < 128 THEN lower - 97 + 10
                 ELSE radix
    IN IF d < radix THEN [some |-> TRUE, val |-> d] ELSE [some |-> FALSE, val |-> 0]

RECURSIVE ParseDigits(_, _, _, _)
\* the digit loop of from_str_radix: checked_mul, checked_add on a u8
ParseDigits(digits, i, acc, radix) ==
    IF i > Len(digits) THEN [ok |-> TRUE, val |-> acc]
    ELSE LET d == to_digit(digits[i], radix) IN
         IF ~d.some THEN [ok |-> FALSE, val |-> 0]
         ELSE IF acc * radix + d.val > U8Max THEN [ok |-> FALSE, val |-> 0]
         ELSE ParseDigits(digits, i + 1, acc * radix + d.val, radix)

\* u8::from_str_radix(src, radix)
u8_from_str_radix(src, radix) ==
    IF Len(src) = 0 THEN [ok |-> FALSE, val |-> 0]
    ELSE IF src[1] \in {43, 45} /\ Len(src) = 1 THEN [ok |-> FALSE, val |-> 0]
    ELSE LET digits == IF src[1] = 43 THEN Tail(src) ELSE src
         IN ParseDigits(digits, 1, 0, radix)

from_packet(body) ==
    IF Len(body) = 0 THEN None
    ELSE IF ~Utf8Valid(body, 1) THEN Panic
    ELSE LET v == u8_from_str_radix(body, Radix) IN
         IF ~v.ok THEN Panic
         ELSE [tag |-> "Some", reg_num |-> v.val]

(***************************************************************************)
(* BpfRegId::from_raw_id, BpfBreakpointKind::from_usize                    *)
(***************************************************************************)
\* NonZeroUsize::new(x)
NonZeroUsize_new(x) == IF x = 0 THEN [some |-> FALSE, val |-> 0] ELSE [some |-> TRUE, val |-> x]

\* faulty variant: id 10 taken for a general purpose register
from_raw_id_gpr10(a, id) ==
    IF id >= 0 /\ id <= 10
    THEN [tag |-> "Some", reg |-> [kind |-> "Gpr", idx |-> id],
          size |-> NonZeroUsize_new(GprSize)]
    ELSE IF id # 11 THEN [tag |-> "None"]
    ELSE [tag |-> "Some", reg |-> [kind |-> "Pc", idx |-> 0],
          size |-> NonZeroUsize_new(ptrsize(a))]

\* faulty variant: sp and pc reported 8 bytes wide whatever U is
from_raw_id_fixed8(a, id) ==
    IF id >= 0 /\ id <= 9
    THEN [tag |-> "Some", reg |-> [kind |-> "Gpr", idx |-> id],
          size |-> NonZeroUsize_new(GprSize)]
    ELSE IF id \notin {10, 11} THEN [tag |-> "None"]
    ELSE [tag |-> "Some",
          reg |-> IF id = 10 THEN [kind |-> "Sp", idx |-> 0] ELSE [kind |-> "Pc", idx |-> 0],
          size |-> NonZeroUsize_new(GprSize)]

from_raw_id(a, id) ==
    IF id >= 0 /\ id <= 9
    THEN LET w == NonZeroUsize_new(GprSize) IN
         IF ~w.some THEN None
         ELSE [tag |-> "Some", reg |-> [kind |-> "Gpr", idx |-> id], size |-> w]
    ELSE IF id \notin {10, 11} THEN None
    ELSE LET reg == IF id = 10 THEN [kind |-> "Sp", idx |-> 0] ELSE [kind |-> "Pc", idx |-> 0]
             w   == NonZeroUsize_new(ptrsize(a))
         IN IF ~w.some THEN None
            ELSE [tag |-> "Some", reg |-> reg, size |-> w]

\* faulty variant: kind 1 accepted as well
from_usize_upto1(kind) ==
    IF kind <= 1 THEN [tag |-> "Some", kind |-> "BpfBpKindBrkpt"] ELSE [tag |-> "None"]

from_usize(kind) ==
    IF kind = 0 THEN [tag |-> "Some", kind |-> "BpfBpKindBrkpt"] ELSE None

(***************************************************************************)
(* Inputs of the pure functions                                            *)
(***************************************************************************)
\* '+' '-' '0' '1' '5' 'F' 'a' 'f' 'z', and 0xA9 0xC3 0xFF
BodyBytes == {43, 45, 48, 49, 53, 70, 97, 102, 122, 169, 195, 255}

RECURSIVE SeqsUpTo(_, _)
SeqsUpTo(S, k) ==
    IF k = 0 THEN {<<>>}
    ELSE LET shorter == SeqsUpTo(S, k - 1) IN
         shorter \cup { Append(t, x) : t \in shorter, x \in S }

Bodies == SeqsUpTo(BodyBytes, MaxBodyLen)

\* usize values beyond the enumerated range
BigUsize == {255, 256, 65536, 2147483647}

RawIds == (0..MaxRawId) \cup BigUsize
Kinds == (0..MaxKind) \cup BigUsize

\* the calls a client packet can cause, each with its argument
Calls ==
    { [fn |-> "from_packet", arg |-> body] : body \in Bodies }
    \cup { [fn |-> "from_raw_id", arg |-> <<id>>] : id \in RawIds }
    \cup { [fn |-> "from_usize", arg |-> <<kind>>] : kind \in Kinds }

InitCmd ==
    /\ arch \in Archs
    /\ regs = DefaultRegs(arch)
    /\ wire = <<>>
    /\ op = "none"
    /\ res = "none"
    /\ pre = regs
    /\ sent = [some |-> FALSE, regs |-> DefaultRegs(arch)]
    /\ rcvd = [some |-> FALSE, buf |-> <<>>]
    /\ n = 0
    /\ call \in Calls
    /\ ret = NoRet

\* qRegisterInfo::from_packet(buf), body = buf.into_body()
FromPacket ==
    /\ call.fn = "from_packet"
    /\ ret = NoRet
    /\ ret' = from_packet(call.arg)
    /\ UNCHANGED <<arch, regs, wire, op, res, pre, sent, rcvd, n, call>>

\* <Arch::RegId as RegId>::from_raw_id(id)
FromRawId ==
    /\ call.fn = "from_raw_id"
    /\ ret = NoRet
    /\ ret' = from_raw_id(arch, call.arg[1])
    /\ UNCHANGED <<arch, regs, wire, op, res, pre, sent, rcvd, n, call>>

\* <Arch::BreakpointKind as BreakpointKind>::from_usize(kind)
FromUsize ==
    /\ call.fn = "from_usize"
    /\ ret = NoRet
    /\ ret' = from_usize(call.arg[1])
    /\ UNCHANGED <<arch, regs, wire, op, res, pre, sent, rcvd, n, call>>

NextCmd == FromPacket \/ FromRawId \/ FromUsize

SpecCmd == InitCmd /\ [][NextCmd]_vars

(***************************************************************************)
(* Register ids against the register file layout                           *)
(***************************************************************************)
\* a register id is looked up while a register file is written or read
InitWidth ==
    /\ arch \in Archs
    /\ \/ regs \in { f \in RegFiles(arch) :
                       f.sp # f.pc /\ \E i \in 0..(NumGprs - 1) : f.r[i] = ZeroU64 }
          /\ wire = <<>>
       \/ regs = DefaultRegs(arch)
          /\ wire \in { b \in ExactBuffers(arch) :
                          \E i \in 0..(NumGprs - 1) :
                              SubSeq(b, 8 * i + 1, 8 * i + 8) = <<0, 0, 0, 0, 0, 0, 0, 0>> }
                      \cup LongBuffers(arch)
    /\ op = "none"
    /\ res = "none"
    /\ pre = regs
    /\ sent = [some |-> FALSE, regs |-> DefaultRegs(arch)]
    /\ rcvd = [some |-> FALSE, buf |-> <<>>]
    /\ n = 0
    /\ call \in { c \in Calls : c.fn = "from_raw_id" /\ c.arg[1] <= NumGprs + 3 }
    /\ ret = NoRet

NextWidth == Next \/ FromRawId

SpecWidth == InitWidth /\ [][NextWidth]_vars

(***************************************************************************)
(* Properties                                                              *)
(***************************************************************************)
\* 80 + 2 * sizeof(U): 88 bytes on Bpf, 96 on Bpf64
FileLen == IF arch = "Bpf" THEN 88 ELSE 96

PtrWidth == IF arch = "Bpf" THEN 4 ELSE 8

\* the 8-byte byte-reversal of a u64
SwapBytes(v) == [k \in 0..7 |-> v[7 - k]]

RoundTripped == op = "gdb_deserialize" /\ sent.some

\* C1: the bytes gdb_serialize emits for a register file v, handed to
\* gdb_deserialize on any register file, give Ok and a register file equal to v
\* in r[0..9], sp and pc.
C1_DeserializeOfSerialize ==
    RoundTripped =>
        /\ res = "Ok"
        /\ \A i \in 0..9 : regs.r[i] = sent.regs.r[i]
        /\ regs.sp = sent.regs.sp
        /\ regs.pc = sent.regs.pc

\* C2: a buffer of exactly the register-file length deserializes successfully
\* and gdb_serialize of the result emits exactly the bytes of the buffer.
C2_SerializeOfDeserialize ==
    /\ (op = "gdb_deserialize" /\ Len(wire) = FileLen) => res = "Ok"
    /\ (op = "gdb_serialize" /\ rcvd.some /\ Len(rcvd.buf) = FileLen) => wire = rcvd.buf

\* R0..R9 zero, sp = 0x1000, pc = 0x2000
IsScenarioFile(f) ==
    /\ \A i \in 0..9 : \A k \in 0..7 : f.r[i][k] = 0
    /\ f.sp = [k \in 0..7 |-> IF k = 1 THEN 16 ELSE 0]
    /\ f.pc = [k \in 0..7 |-> IF k = 1 THEN 32 ELSE 0]

\* C8: on Bpf64 the register file with R0..R9 zero, sp 0x1000, pc 0x2000,
\* serialized and then deserialized, is reproduced in every field.
C8_ScenarioRoundTrip ==
    (arch = "Bpf64" /\ RoundTripped /\ IsScenarioFile(sent.regs)) =>
        res = "Ok" /\ IsScenarioFile(regs)

C8_Witness ==
    /\ arch = "Bpf64" /\ RoundTripped /\ IsScenarioFile(sent.regs)
    /\ pre # sent.regs
    /\ Len(wire) = 96 /\ wire[82] = 16 /\ wire[90] = 32
    /\ res = "Ok"

\* C9: gdb_deserialize returns Err for every buffer shorter than the register
\* file and then leaves r, sp and pc as they were; a buffer that passes the
\* length check never gives Err, so no partly written file is ever seen.
C9_ShortBufferRejected ==
    op = "gdb_deserialize" =>
        /\ Len(wire) < FileLen => (res = "Err" /\ regs = pre)
        /\ Len(wire) >= FileLen => res # "Err"
        /\ res = "Err" => regs = pre

C9_Witness ==
    /\ op = "gdb_deserialize" /\ res = "Err"
    /\ Len(wire) = FileLen - 1
    /\ regs = pre
    /\ regs # DefaultRegs(arch)
    /\ \E i \in 1..Len(wire) : wire[i] # 0

\* C10: gdb_serialize writes each general purpose register as 8 little-endian
\* bytes, gdb_deserialize reads each as 8 big-endian bytes, sp and pc are
\* written and read little-endian; so deserializing the serialization of v
\* gives v's sp and pc and each r[i] byte-reversed.
C10_ByteOrder ==
    /\ op = "gdb_serialize" =>
        /\ Len(wire) = FileLen
        /\ \A i \in 0..9 : \A k \in 0..7 : wire[8 * i + k + 1] = regs.r[i][k]
        /\ \A k \in 0..(PtrWidth - 1) :
              wire[80 + k + 1] = regs.sp[k] /\ wire[80 + PtrWidth + k + 1] = regs.pc[k]
    /\ (op = "gdb_deserialize" /\ res = "Ok") =>
        /\ \A i \in 0..9 : \A k \in 0..7 : regs.r[i][k] = wire[8 * i + (7 - k) + 1]
        /\ \A k \in 0..(PtrWidth - 1) :
              regs.sp[k] = wire[80 + k + 1] /\ regs.pc[k] = wire[80 + PtrWidth + k + 1]
    /\ RoundTripped =>
        /\ res = "Ok"
        /\ regs.sp = sent.regs.sp /\ regs.pc = sent.regs.pc
        /\ \A i \in 0..9 : regs.r[i] = SwapBytes(sent.regs.r[i])

C10_Witness ==
    /\ RoundTripped /\ res = "Ok"
    /\ \E i \in 0..9 : regs.r[i] # sent.regs.r[i] /\ regs.r[i] = SwapBytes(sent.regs.r[i])
    /\ regs.sp = sent.regs.sp
    /\ \E k \in 0..(PtrWidth - 1) : regs.sp[k] # regs.sp[PtrWidth - 1 - k]

Returned(f) == call.fn = f /\ ret # NoRet

IsHexDigit(c) == c \in (48..57) \cup (65..70) \cup (97..102)

HexDigitValue(c) == IF c <= 57 THEN c - 48 ELSE IF c <= 70 THEN c - 55 ELSE c - 87

RECURSIVE HexValue(_)
\* the big-endian hexadecimal value of a string of hex digits
HexValue(t) ==
    IF Len(t) = 0 THEN 0
    ELSE 16 * HexValue(SubSeq(t, 1, Len(t) - 1)) + HexDigitValue(t[Len(t)])

IsHexString(t) == Len(t) > 0 /\ \A i \in 1..Len(t) : IsHexDigit(t[i])

\* C3: parsing a qRegisterInfo body never aborts: every body gives a command
\* with a register index or None; the empty body gives None, and a body with
\* non-hex characters, non-UTF-8 bytes or a value above one byte gives None.
C3_ParseNeverAborts ==
    Returned("from_packet") =>
        /\ ret.tag \in {"Some", "None"}
        /\ Len(call.arg) = 0 => ret.tag = "None"
        /\ (Len(call.arg) > 0 /\ ~(IsHexString(call.arg) /\ HexValue(call.arg) <= 255))
              => ret.tag = "None"

\* C4: a non-empty body of hex digits (either case, no prefix) whose value is
\* in 0..=255 parses to a command whose reg_num is that value.
C4_HexBodyParses ==
    (Returned("from_packet") /\ IsHexString(call.arg) /\ HexValue(call.arg) <= 255) =>
        ret.tag = "Some" /\ ret.reg_num = HexValue(call.arg)

C4_Witness ==
    /\ Returned("from_packet") /\ call.arg = <<53>>
    /\ ret.tag = "Some" /\ ret.reg_num = 5

\* C5: from_raw_id gives Gpr(id) for ids 0..=9, Sp for 10, Pc for 11 on both
\* architectures, and None for every id >= 12.
C5_RegIdMapping ==
    Returned("from_raw_id") =>
        LET id == call.arg[1] IN
        /\ id <= 9 => (ret.tag = "Some" /\ ret.reg = [kind |-> "Gpr", idx |-> id])
        /\ id = 10 => (ret.tag = "Some" /\ ret.reg.kind = "Sp")
        /\ id = 11 => (ret.tag = "Some" /\ ret.reg.kind = "Pc")
        /\ id >= 12 => ret.tag = "None"

C5_Witness ==
    /\ Returned("from_raw_id") /\ call.arg[1] = 11
    /\ ret.tag = "Some" /\ ret.reg.kind = "Pc"

\* C7: from_usize gives the BPF breakpoint kind for 0 and None for every
\* other integer.
C7_BreakpointKind ==
    Returned("from_usize") =>
        LET kind == call.arg[1] IN
        /\ kind = 0 => ret = [tag |-> "Some", kind |-> "BpfBpKindBrkpt"]
        /\ kind # 0 => ret.tag = "None"

C7_Witness ==
    /\ Returned("from_usize") /\ call.arg[1] = 0
    /\ ret.tag = "Some" /\ ret.kind = "BpfBpKindBrkpt"

\* offset of register id in the serialized register file
RegOffset(id) == IF id <= 10 THEN 8 * id ELSE 80 + PtrWidth

\* where the register after id starts; the end of the buffer for the last one
RegEnd(id, total) ==
    IF id < 10 THEN 8 * (id + 1) ELSE IF id = 10 THEN 80 + PtrWidth ELSE total

RegValue(f, reg) ==
    IF reg.kind = "Gpr" THEN f.r[reg.idx] ELSE IF reg.kind = "Sp" THEN f.sp ELSE f.pc

\* C6: the width from_raw_id returns for a valid id is present and non-zero:
\* 8 for ids 0..=9, the pointer size (4 on Bpf, 8 on Bpf64) for Sp and Pc; it
\* is the number of bytes gdb_serialize emits and gdb_deserialize consumes
\* for that register.
C6_RegisterWidth ==
    (Returned("from_raw_id") /\ call.arg[1] <= 11) =>
        LET id  == call.arg[1]
            w   == ret.size.val
            off == RegOffset(id)
        IN
        /\ ret.tag = "Some" /\ ret.size.some /\ w # 0
        /\ w = IF id <= 9 THEN 8 ELSE PtrWidth
        /\ sent.some =>
              /\ off + w = RegEnd(id, Len(wire))
              /\ \A k \in 0..(w - 1) : wire[off + k + 1] = RegValue(sent.regs, ret.reg)[k]
        /\ rcvd.some =>
              /\ off + w = RegEnd(id, FileLen)
              /\ off + w <= Len(rcvd.buf)
              /\ \A k \in 0..(w - 1) :
                    RegValue(regs, ret.reg)[k] =
                        rcvd.buf[off + 1 + (IF id <= 9 THEN w - 1 - k ELSE k)]

C6_Witness ==
    /\ Returned("from_raw_id") /\ call.arg[1] = 11 /\ arch = "Bpf"
    /\ ret.tag = "Some" /\ ret.size.val = 4
    /\ sent.some /\ rcvd.some
    /\ sent.regs.pc # ZeroPtr(arch)

====
